---- MODULE Spec2Model ----
(***************************************************************************)
(* GithubToCloudStorageOperator                                            *)
(* (src/operators/github_to_cloud_storage_operator.py) as a state machine: *)
(* construction, execute with its scope fan-out, paginate_data request by  *)
(* request, filterMapper on every record, output_manager and the upload.   *)
(*                                                                         *)
(* Python values are tagged records so that values of different Python     *)
(* types can be compared: None is [t |-> "null"], an int [t |-> "num"],    *)
(* a str [t |-> "str"], a dict [t |-> "obj"], a list [t |-> "arr"].  A     *)
(* record of the API (a Python dict at top level) is a function from its   *)
(* keys to such values.                                                    *)
(***************************************************************************)
EXTENDS Integers, Sequences, FiniteSets, TLC

Null == [t |-> "null"]
Num(n) == [t |-> "num", n |-> n]
Str(s) == [t |-> "str", s |-> s]
Obj(m) == [t |-> "obj", m |-> m]
Arr(a) == [t |-> "arr", a |-> a]

IsNull(v) == v.t = "null"

\* dict[key] = value
SetKey(d, key, value) ==
    [k \in DOMAIN d \cup {key} |-> IF k = key THEN value ELSE d[k]]

\* del dict[key]
DelKey(d, key) == [k \in DOMAIN d \ {key} |-> d[k]]

\* the empty dict
EmptyDict == [k \in {} |-> Null]

(***************************************************************************)
(* The supported objects, __init__ lines 77-84, and the three objects      *)
(* execute treats as having no repository scope, lines 91-93.              *)
(***************************************************************************)
SupportedObjects ==
    {"commits", "commit_comments", "issue_comments", "issues",
     "members", "organizations", "pull_requests", "repositories"}

OrgLevelObjects == {"members", "organizations", "repositories"}

\* a comparison of the string as it was given
asGiven(s) == s

(***************************************************************************)
(* str.lower() on the object names the model constructs operators with:    *)
(* upper-case letters are replaced by their lower-case letters and every   *)
(* other character is kept.                                                *)
(***************************************************************************)
lower(s) ==
    CASE s = "Commits" -> "commits"
      [] s = "ISSUES" -> "issues"
      [] s = "Members" -> "members"
      [] s = "S3" -> "s3"
      [] s = "GCS" -> "gcs"
      [] s = "Gcs" -> "gcs"
      [] OTHER -> s

(***************************************************************************)
(* "{0}".format(x) for a str, None or a list of str (their str())          *)
(***************************************************************************)
RECURSIVE formatItems(_)
formatItems(a) ==
    IF a = <<>> THEN ""
    ELSE "'" \o Head(a).s \o "'" \o (IF Len(a) > 1 THEN ", " ELSE "") \o formatItems(Tail(a))

format(v) ==
    IF IsNull(v) THEN "None"
    ELSE IF v.t = "arr" THEN "[" \o formatItems(v.a) \o "]"
    ELSE v.s

(***************************************************************************)
(* methodMapper, lines 180-195.  The dict of line 185 is built from org    *)
(* and repo, except the "repositories" entry, which uses self.github_org   *)
(* (selfOrg).  mapping[github_object] raises KeyError for a name that is   *)
(* not a key: methodMapperRaises.                                          *)
(***************************************************************************)
method_mapping(selfOrg, org, repo) ==
    [o \in SupportedObjects |->
        CASE o = "commits" -> "repos/" \o format(org) \o "/" \o format(repo) \o "/commits"
          [] o = "commit_comments" -> "repos/" \o format(org) \o "/" \o format(repo) \o "/comments"
          [] o = "issue_comments" -> "repos/" \o format(org) \o "/" \o format(repo) \o "/issues/comments"
          [] o = "issues" -> "repos/" \o format(org) \o "/" \o format(repo) \o "/issues"
          [] o = "members" -> "orgs/" \o format(org) \o "/members"
          [] o = "organizations" -> "user/organizations"
          [] o = "pull_requests" -> "repos/" \o format(org) \o "/" \o format(repo) \o "/pulls"
          [] o = "repositories" -> "orgs/" \o format(selfOrg) \o "/repos"]

methodMapperRaises(obj) == obj \notin DOMAIN method_mapping(Null, Null, Null)

methodMapper(selfOrg, obj, org, repo) == method_mapping(selfOrg, org, repo)[obj]

(***************************************************************************)
(* filterMapper, lines 197-292.  The rule table of lines 216-260, in table *)
(* order; 'retained': None is the empty sequence (line 275 tests its       *)
(* truth value, and None and [] are both false).                           *)
(***************************************************************************)
filter_mapping ==
    << [name |-> "commits",         filtered |-> "author",    retained |-> <<"id">>],
       [name |-> "commits",         filtered |-> "committer", retained |-> <<"id">>],
       [name |-> "issues",          filtered |-> "labels",    retained |-> <<>>],
       [name |-> "issue_comments",  filtered |-> "user",      retained |-> <<"id">>],
       [name |-> "commit_comments", filtered |-> "user",      retained |-> <<"id">>],
       [name |-> "repositories",    filtered |-> "owner",     retained |-> <<"id">>],
       [name |-> "pull_requests",   filtered |-> "assignee",  retained |-> <<"id">>],
       [name |-> "pull_requests",   filtered |-> "milestone", retained |-> <<"id">>],
       [name |-> "pull_requests",   filtered |-> "head",      retained |-> <<"label">>],
       [name |-> "pull_requests",   filtered |-> "base",      retained |-> <<"label">>],
       [name |-> "pull_requests",   filtered |-> "user",      retained |-> <<"id">> ] >>

\* a retained field hoisted without the "_" of its new name
HoistKeyUnseparated(filtered, retained_item) == filtered \o retained_item

\* "{0}_{1}".format(entry['filtered'], retained_item), lines 285-286
HoistKey(filtered, retained_item) == filtered \o "_" \o retained_item

\* lines 276-287: the loop over entry['retained'], from its i-th item on
RECURSIVE retain(_, _, _)
retain(record, entry, i) ==
    IF i > Len(entry.retained) THEN record
    ELSE LET retained_item == entry.retained[i]
             value == record[entry.filtered]
         IN  IF ~IsNull(value) /\ retained_item \in DOMAIN value.m
             THEN retain(SetKey(record, HoistKey(entry.filtered, retained_item),
                                value.m[retained_item]),
                         entry, i + 1)
             ELSE retain(record, entry, i + 1)

\* a deletion in two calls: an object is replaced by None, None is deleted
DeleteFilteredInTwoCalls(record, filtered) ==
    IF ~IsNull(record[filtered]) THEN SetKey(record, filtered, Null)
    ELSE DelKey(record, filtered)

\* lines 288-289: the deletion that ends the body of the loop over the rules
DeleteFiltered(record, filtered) ==
    IF ~IsNull(record[filtered]) THEN DelKey(record, filtered) ELSE record

\* a rule applied whatever the object it is a rule of
ApplyEntryOfAnyObject(obj, record, entry) ==
    IF entry.filtered \in DOMAIN record
    THEN DeleteFiltered(retain(record, entry, 1), entry.filtered)
    ELSE record

\* lines 272-289: one rule applied to the record
ApplyEntry(obj, record, entry) ==
    IF entry.name = obj /\ entry.filtered \in DOMAIN record
    THEN DeleteFiltered(retain(record, entry, 1), entry.filtered)
    ELSE record

\* lines 262-290: process(record, mapping), from the i-th rule on
RECURSIVE process(_, _, _)
process(obj, record, i) ==
    IF i > Len(filter_mapping) THEN record
    ELSE process(obj, ApplyEntry(obj, record, filter_mapping[i]), i + 1)

\* line 292; obj is self.github_object
filterMapper(obj, record) == process(obj, record, 1)

(***************************************************************************)
(* flatten(record) of the flatten_json library, line 112: every leaf of    *)
(* the nested value under the path of its keys joined by "_", the items of *)
(* a list under their positions counted from 0.                            *)
(***************************************************************************)
RECURSIVE FlattenValue(_, _)
FlattenValue(v, key) ==
    IF v.t = "obj"
    THEN UNION {FlattenValue(v.m[k], key \o "_" \o k) : k \in DOMAIN v.m}
    ELSE IF v.t = "arr"
    THEN UNION {FlattenValue(v.a[i], key \o "_" \o ToString(i - 1)) : i \in DOMAIN v.a}
    ELSE {<<key, v>>}

flatten(record) ==
    LET leaves == UNION {FlattenValue(record[k], k) : k \in DOMAIN record}
    IN  [key \in {l[1] : l \in leaves} |-> (CHOOSE l \in leaves : l[1] = key)[2]]

\* json.dumps(flatten(record)), line 112: the text of one JSON object,
\* named by the flat object it encodes
dumps(flat) == [json |-> flat]

\* '\n'.join([...]), line 112: a text is the sequence of its lines, and the
\* empty text '' has none
join(records) == [j \in DOMAIN records |-> dumps(flatten(records[j]))]

(***************************************************************************)
(* The Github API behind GithubHook.run (line 167): an endpoint holds      *)
(* `total` records, numbered from 1, and a request with the parameters     *)
(* per_page and page is answered with the records of that page.            *)
(***************************************************************************)
MaxRepos == 2
MaxFullPages == 2

\* 'per_page': 100, line 163, and the 100 of the loop test, line 171
PerPage == 100
FullPage == 100

RepoName(i) == "r" \o ToString(i)

RepoValues == {Null} \cup {Str(RepoName(i)) : i \in 1..(MaxRepos + 1)}

\* the organization the API serves
Org == Str("acme")

\* the object an endpoint serves and the repository it belongs to: the
\* inverse of methodMapper
Endpoints ==
    {<<methodMapper(Org, o, Org, repo), o, IF o \in OrgLevelObjects THEN Null ELSE repo>> :
        o \in SupportedObjects, repo \in RepoValues}

Resource(ep) == (CHOOSE e \in Endpoints : e[1] = ep)[2]

RepoOf(ep) == (CHOOSE e \in Endpoints : e[1] = ep)[3]

RepoIndex(repo) ==
    IF IsNull(repo) THEN 0 ELSE CHOOSE i \in 1..(MaxRepos + 1) : RepoName(i) = repo.s

User(i) == Obj([id |-> Num(i), login |-> Str("u")])

\* the record counts an endpoint may hold
Totals == {f * FullPage + r : f \in 0..MaxFullPages, r \in {0, 50}}

\* the number of records behind an endpoint in the world w: the endpoints of
\* different repositories hold different numbers, each of them in Totals
TotalOf(w, ep) ==
    (w + 50 * RepoIndex(RepoOf(ep))) % ((MaxFullPages + 1) * FullPage)


BackendRecord(kind, ep, i) ==
    CASE kind = "commits" ->
           CASE i % 3 = 1 -> [url |-> Str(ep), n |-> Num(i), author |-> User(i), committer |-> Null]
             [] i % 3 = 2 -> [url |-> Str(ep), n |-> Num(i), author |-> Null, committer |-> User(i)]
             [] OTHER -> [url |-> Str(ep), n |-> Num(i), author |-> Obj([login |-> Str("u")]),
                          commit |-> Obj([message |-> Str("m")])]
      [] kind = "issues" ->
           CASE i % 3 = 1 -> [url |-> Str(ep), n |-> Num(i), user |-> User(i),
                              labels |-> Arr(<<Obj([name |-> Str("bug")])>>)]
             [] i % 3 = 2 -> [url |-> Str(ep), n |-> Num(i), labels |-> Arr(<<>>)]
             [] OTHER -> [url |-> Str(ep), n |-> Num(i), user |-> User(i)]
      [] kind = "pull_requests" ->
           CASE i % 2 = 1 -> [url |-> Str(ep), n |-> Num(i), user |-> User(i), assignee |-> Null,
                              head |-> Obj([label |-> Str("h"), sha |-> Num(i)])]
             [] OTHER -> [url |-> Str(ep), n |-> Num(i), base |-> Obj([label |-> Str("b")]),
                          milestone |-> Obj([id |-> Num(i)])]
      [] kind \in {"commit_comments", "issue_comments"} ->
           CASE i % 2 = 1 -> [url |-> Str(ep), n |-> Num(i), user |-> User(i)]
             [] OTHER -> [url |-> Str(ep), n |-> Num(i), user |-> Null]
      [] kind = "repositories" ->
           [url |-> Str(ep), n |-> Num(i), name |-> Str(RepoName(i)), owner |-> User(i)]
      [] OTHER -> [url |-> Str(ep), n |-> Num(i), login |-> Str("u")]

Min(a, b) == IF a < b THEN a ELSE b

\* the JSON array that answers g.run(endpoint, final_payload)
ServePage(ep, params, n) ==
    LET kind == Resource(ep)
        p == params["per_page"].n
        lo == (params["page"].n - 1) * p
        len == Min(p, n - lo)
    IN  [j \in 1..len |-> BackendRecord(kind, ep, lo + j)]

(***************************************************************************)
(* The operator                                                            *)
(***************************************************************************)
VARIABLES
    github_org, github_repo, github_object, payload, destination,  \* the fields set by __init__
    pc,             \* where the run is
    caller,         \* who called paginate_data: "execute" (line 96) or "retrieve_data" (line 151)
    repos, repo_i,  \* execute: the list of lines 95-103 and the position of its loop
    output,         \* execute: output
    endpoint, final_payload, response, pd_output,  \* paginate_data: its locals (pd_output is its `output`)
    world,          \* the Github API: what its endpoints hold
    total,          \* the number of records the endpoint being paginated holds; -1: not contacted
    requests,       \* every call of g.run so far: its endpoint and its parameters
    listed,         \* the repositories listing of line 96, once returned: its requests and its size
    exception,      \* the call whose exception left execute, "" while there is none
    units,          \* one entry per finished call of retrieve_data
    uploads,        \* every upload handed to the destination hook
    fm_record, fm_result, \* filterMapper on its own: its argument and what it returned
    fm_again        \* what filterMapper returned for what it had returned

vars == <<github_org, github_repo, github_object, payload, destination, pc, caller,
          repos, repo_i, output, endpoint, final_payload, response, pd_output,
          world, total, requests, listed, exception, units, uploads, fm_record, fm_result,
          fm_again>>

fields == <<github_org, github_repo, github_object, payload, destination, world,
            fm_record, fm_result, fm_again>>
locals == <<endpoint, final_payload, response, pd_output, total>>

ObjectArgs ==
    SupportedObjects \cup {"Commits", "Members", "wikis"}

RepoArgs == {Null, Str("r1"), Str("all"), Arr(<<Str("r2"), Str("r1")>>), Arr(<<>>)}

PayloadArgs ==
    { EmptyDict,
      [state |-> Str("all")],
      [per_page |-> Num(50)],
      [page |-> Num(2), since |-> Str("2018")] }

DestinationArgs == {"s3", "GCS", "ftp"}

(***************************************************************************)
(* The operators the model constructs: every object, for no repository and *)
(* for one; every repository setting, for an object of a repository, for   *)
(* one of the organization and for the two names __init__ accepts without  *)
(* supporting; every payload, for one repository and for all of them;      *)
(* every destination, for one repository and for a list of them.           *)
(***************************************************************************)
Config(obj, repo, extra, dest) ==
    [github_object |-> obj, github_repo |-> repo, payload |-> extra, destination |-> dest]

Configs ==
    {Config(o, r, EmptyDict, "s3") : o \in ObjectArgs, r \in {Null, Str("r1")}}
    \cup {Config(o, r, EmptyDict, "s3") :
            o \in {"commits", "repositories", "Commits", "Members"}, r \in RepoArgs}
    \cup {Config("commits", r, e, "s3") : r \in {Str("r1"), Str("all")}, e \in PayloadArgs}
    \cup {Config("issues", r, EmptyDict, d) :
            r \in {Str("r1"), Arr(<<Str("r2"), Str("r1")>>)}, d \in DestinationArgs}

NotListed == [reqTo |-> 0, total |-> -1]

\* the arguments of __init__, lines 55-75, before the check of line 77
Init ==
    /\ github_org = Org
    /\ \E c \in Configs :
          /\ github_object = c.github_object
          /\ github_repo = c.github_repo
          /\ payload = c.payload
          /\ destination = c.destination
    /\ world \in Totals
    /\ pc = "new"
    /\ caller = "none"
    /\ repos = <<>>
    /\ repo_i = 1
    /\ output = <<>>
    /\ endpoint = ""
    /\ final_payload = EmptyDict
    /\ response = <<>>
    /\ pd_output = <<>>
    /\ total = -1
    /\ requests = <<>>
    /\ listed = NotListed
    /\ exception = ""
    /\ units = <<>>
    /\ uploads = <<>>
    /\ fm_record = EmptyDict
    /\ fm_result = EmptyDict
    /\ fm_again = EmptyDict

(***************************************************************************)
(* __init__, lines 66-85: the fields are stored as given, and the check of *)
(* line 77 is made on github_object.lower().                               *)
(***************************************************************************)
InitAccepts(obj) == lower(obj) \in SupportedObjects

__init__ ==
    /\ pc = "new"
    /\ \/ /\ InitAccepts(github_object)
          /\ pc' = "ready"
       \/ /\ ~InitAccepts(github_object)
          /\ pc' = "rejected"
    /\ UNCHANGED <<fields, caller, repos, repo_i, output, locals, requests, listed,
                   exception, units, uploads>>

\* the two defaults written over the payload
FinalPayloadDefaultsLast(extra) ==
    [k \in {"per_page", "page"} \cup DOMAIN extra |->
        IF k = "per_page" THEN Num(PerPage)
        ELSE IF k = "page" THEN Num(1) ELSE extra[k]]

(***************************************************************************)
(* paginate_data, lines 162-165: the request parameters, the payload       *)
(* written over the two defaults.                                          *)
(***************************************************************************)
FinalPayload(extra) ==
    [k \in {"per_page", "page"} \cup DOMAIN extra |->
        IF k \in DOMAIN extra THEN extra[k]
        ELSE IF k = "per_page" THEN Num(PerPage) ELSE Num(1)]

\* the position of the loops of lines 98 and 102 after the unit at i
AfterUnit(i, list) == IF i + 1 > Len(list) THEN "output_manager" ELSE "retrieve_data"

\* a test of line 91 that sends every object into the branch of lines 94-105
ScopedWhateverObject(obj) == TRUE

(***************************************************************************)
(* execute, lines 88-107, up to its first call of retrieve_data or         *)
(* paginate_data.  `output = self.retrieve_data(...)` of lines 105 and 107 *)
(* is the loop of line 102 over the one repository.                        *)
(***************************************************************************)
IsScoped(obj) == obj \notin OrgLevelObjects

execute ==
    /\ pc = "ready"
    /\ output' = <<>>
    /\ IF IsScoped(github_object) /\ github_repo = Str("all")
       THEN /\ caller' = "execute"
            /\ endpoint' = methodMapper(github_org, "repositories", Null, Null)
            /\ final_payload' = FinalPayload(payload)
            /\ pd_output' = <<>>
            /\ pc' = "paginate_data"
            /\ UNCHANGED <<repos, repo_i>>
       ELSE /\ repos' = IF IsScoped(github_object) /\ github_repo.t = "arr"
                        THEN github_repo.a
                        ELSE <<github_repo>>
            /\ repo_i' = 1
            /\ pc' = IF repos' = <<>> THEN "output_manager" ELSE "retrieve_data"
            /\ UNCHANGED <<caller, endpoint, final_payload, pd_output>>
    /\ UNCHANGED <<fields, response, total, requests, listed, exception, units, uploads>>

\* the entry of `units` for a call of retrieve_data that has returned
Unit(repo, ep, n, failed, reqs, out) ==
    [repo |-> repo, endpoint |-> ep, total |-> n, failed |-> failed,
     reqTo |-> Len(reqs), outTo |-> Len(out)]

(***************************************************************************)
(* retrieve_data, lines 147-151, up to the first request: the endpoint is  *)
(* built, and a KeyError of methodMapper is caught by line 152.            *)
(***************************************************************************)
retrieve_data ==
    /\ pc = "retrieve_data"
    /\ IF methodMapperRaises(github_object)
       THEN /\ units' = Append(units, Unit(repos[repo_i], "", -1, TRUE, requests, output))
            /\ repo_i' = repo_i + 1
            /\ pc' = AfterUnit(repo_i, repos)
            /\ UNCHANGED <<caller, endpoint, final_payload, pd_output>>
       ELSE /\ caller' = "retrieve_data"
            /\ endpoint' = methodMapper(github_org, github_object, github_org, repos[repo_i])
            /\ final_payload' = FinalPayload(payload)
            /\ pd_output' = <<>>
            /\ pc' = "paginate_data"
            /\ UNCHANGED <<units, repo_i>>
    /\ UNCHANGED <<fields, repos, output, response, total, requests, listed, exception,
                   uploads>>

\* line 177: output = [self.filterMapper(record) for record in output]
FilterAll(obj, records) == [j \in DOMAIN records |-> filterMapper(obj, records[j])]

\* line 95: [repo['name'] for repo in ...]
Names(records) == [j \in DOMAIN records |-> records[j]["name"]]

\* a loop that goes on while the last page held anything
LoopWhileNonEmpty(resp) == Len(resp) > 0

\* a loop that goes on only after a page of more than 100
LoopWhileOverfull(resp) == Len(resp) > FullPage

\* line 171: while len(response) == 100
LoopContinues(resp) == Len(resp) = FullPage

\* a loop that goes two pages on
NextPageSkips(params) == [params EXCEPT !["page"] = Num(@.n + 2)]

\* line 172: final_payload['page'] += 1
NextPage(params) == [params EXCEPT !["page"] = Num(@.n + 1)]

\* a response filtered as it is accumulated
ExtendFiltered(out, resp) == out \o FilterAll(github_object, resp)

\* a response put in front of what was accumulated
ExtendInFront(out, resp) == resp \o out

\* lines 168 and 176: output.extend(response)
Extend(out, resp) == out \o resp

(***************************************************************************)
(* paginate_data returns `result` to its caller: execute (line 95) makes   *)
(* the list of names and starts its loop, retrieve_data (line 151) returns *)
(* it to the loop of execute, which extends output (lines 99, 103).        *)
(***************************************************************************)
Return(result, reqs, n) ==
    /\ IF caller = "execute"
       THEN /\ repos' = Names(result)
            /\ repo_i' = 1
            /\ listed' = [reqTo |-> Len(reqs), total |-> n]
            /\ pc' = IF result = <<>> THEN "output_manager" ELSE "retrieve_data"
            /\ UNCHANGED <<output, units>>
       ELSE /\ output' = Extend(output, result)
            /\ units' = Append(units, Unit(repos[repo_i], endpoint, n, FALSE, reqs, output'))
            /\ repo_i' = repo_i + 1
            /\ pc' = AfterUnit(repo_i, repos)
            /\ UNCHANGED <<repos, listed>>
    /\ endpoint' = ""
    /\ final_payload' = EmptyDict
    /\ response' = <<>>
    /\ pd_output' = <<>>
    /\ total' = -1
    /\ caller' = "none"
    /\ exception' = exception

\* retrieve_data without its try/except: the exception leaves execute
RaiseUncaught(reqs) ==
    /\ pc' = "raised"
    /\ exception' = "run"
    /\ endpoint' = ""
    /\ final_payload' = EmptyDict
    /\ response' = <<>>
    /\ pd_output' = <<>>
    /\ total' = -1
    /\ caller' = "none"
    /\ UNCHANGED <<repo_i, units, repos, listed, output>>

\* an except clause that returns the pages fetched before the error
RaiseKeepsFetched(reqs) ==
    /\ IF caller = "execute"
       THEN /\ pc' = "raised"
            /\ exception' = "run"
            /\ UNCHANGED <<repo_i, units, output>>
       ELSE /\ output' = output \o FilterAll(github_object, pd_output)
            /\ units' = Append(units, Unit(repos[repo_i], endpoint, total, TRUE, reqs, output'))
            /\ repo_i' = repo_i + 1
            /\ pc' = AfterUnit(repo_i, repos)
            /\ exception' = exception
    /\ endpoint' = ""
    /\ final_payload' = EmptyDict
    /\ response' = <<>>
    /\ pd_output' = <<>>
    /\ total' = -1
    /\ caller' = "none"
    /\ UNCHANGED <<repos, listed>>

\* an except clause around the listing of line 95 as well: the run goes on
\* with no repository
RaiseCaughtInExecute(reqs) ==
    /\ IF caller = "execute"
       THEN /\ pc' = "output_manager"
            /\ UNCHANGED <<repo_i, units>>
       ELSE /\ units' = Append(units, Unit(repos[repo_i], endpoint, total, TRUE, reqs, output))
            /\ repo_i' = repo_i + 1
            /\ pc' = AfterUnit(repo_i, repos)
    /\ exception' = exception
    /\ endpoint' = ""
    /\ final_payload' = EmptyDict
    /\ response' = <<>>
    /\ pd_output' = <<>>
    /\ total' = -1
    /\ caller' = "none"
    /\ UNCHANGED <<repos, listed, output>>

(***************************************************************************)
(* An exception leaves paginate_data: in execute (line 95) nothing catches *)
(* it; in retrieve_data line 152 catches it and '' is returned, which      *)
(* extends output by nothing.                                              *)
(***************************************************************************)
Raise(reqs) ==
    /\ IF caller = "execute"
       THEN /\ pc' = "raised"
            /\ exception' = "run"
            /\ UNCHANGED <<repo_i, units>>
       ELSE /\ units' = Append(units, Unit(repos[repo_i], endpoint, total, TRUE, reqs, output))
            /\ repo_i' = repo_i + 1
            /\ pc' = AfterUnit(repo_i, repos)
            /\ exception' = exception
    /\ endpoint' = ""
    /\ final_payload' = EmptyDict
    /\ response' = <<>>
    /\ pd_output' = <<>>
    /\ total' = -1
    /\ caller' = "none"
    /\ UNCHANGED <<repos, listed, output>>

Request(ep, params) == [endpoint |-> ep, params |-> params]

(***************************************************************************)
(* paginate_data, lines 167-178, one request at a time.  The first request *)
(* is that of line 167; the later ones are those of line 173, made while   *)
(* the last response had 100 elements.  The response that ends the loop    *)
(* also runs lines 177-178 and the return.                                 *)
(***************************************************************************)
FirstRequest == response = <<>> /\ total = -1

run_ok ==
    /\ pc = "paginate_data"
    /\ \E n \in (IF ~FirstRequest THEN {total}
                 ELSE IF caller = "execute" THEN 0..MaxRepos
                 ELSE {TotalOf(world, endpoint)}) :
          LET params == IF FirstRequest THEN final_payload ELSE NextPage(final_payload)
              page == ServePage(endpoint, params, n)
              out == Extend(pd_output, page)
              reqs == Append(requests, Request(endpoint, params))
          IN  /\ requests' = reqs
              /\ IF LoopContinues(page)
                 THEN /\ final_payload' = params
                      /\ response' = page
                      /\ pd_output' = out
                      /\ total' = n
                      /\ UNCHANGED <<pc, caller, endpoint, repos, repo_i, output, listed,
                                     exception, units>>
                 ELSE Return(FilterAll(github_object, out), reqs, n)
    /\ UNCHANGED <<fields, uploads>>

run_raises ==
    /\ pc = "paginate_data"
    /\ LET params == IF FirstRequest THEN final_payload ELSE NextPage(final_payload)
           reqs == Append(requests, Request(endpoint, params))
       IN  /\ requests' = reqs
           /\ Raise(reqs)
    /\ UNCHANGED <<fields, uploads>>

(***************************************************************************)
(* output_manager, lines 112-136.  S3Hook.load_string is given the text.   *)
(* GoogleCloudStorageHook.upload is given the name of a temporary file the *)
(* text was written to with tmp.write (line 128) and neither flushed nor   *)
(* closed before the upload: the file holds the text or, for a text that   *)
(* still sits in the write buffer, nothing.  Any other destination uploads *)
(* nothing.  An exception of the hooks is not caught.                      *)
(***************************************************************************)
Upload(dest, data) == [destination |-> dest, data |-> data]

\* output_manager with its uploads in a try/except that drops the error
output_managerCatches ==
    /\ pc = "output_manager"
    /\ LET text == join(output)
       IN  \/ /\ lower(destination) = "s3"
              /\ uploads' = Append(uploads, Upload("s3", text))
           \/ /\ lower(destination) = "gcs"
              /\ \E onDisk \in {text, <<>>} :
                    uploads' = Append(uploads, Upload("gcs", onDisk))
           \/ /\ lower(destination) \notin {"s3", "gcs"}
              /\ uploads' = uploads
           \/ /\ lower(destination) \in {"s3", "gcs"}
              /\ uploads' = uploads
    /\ pc' = "done"
    /\ exception' = exception
    /\ UNCHANGED <<fields, caller, repos, repo_i, output, locals, requests, listed, units>>

output_manager ==
    /\ pc = "output_manager"
    /\ LET text == join(output)
       IN  \/ /\ lower(destination) = "s3"
              /\ uploads' = Append(uploads, Upload("s3", text))
              /\ pc' = "done"
              /\ exception' = exception
           \/ /\ lower(destination) = "gcs"
              /\ \E onDisk \in {text, <<>>} :
                    uploads' = Append(uploads, Upload("gcs", onDisk))
              /\ pc' = "done"
              /\ exception' = exception
           \/ /\ lower(destination) \notin {"s3", "gcs"}
              /\ uploads' = uploads
              /\ pc' = "done"
              /\ exception' = exception
           \/ /\ lower(destination) \in {"s3", "gcs"}
              /\ uploads' = uploads
              /\ pc' = "raised"
              /\ exception' = "upload"
    /\ UNCHANGED <<fields, caller, repos, repo_i, output, locals, requests, listed, units>>

Next ==
    \/ __init__
    \/ execute
    \/ retrieve_data
    \/ run_ok
    \/ run_raises
    \/ output_manager

Spec == Init /\ [][Next]_vars

(***************************************************************************)
(* filterMapper on its own: self.github_object is any supported object and *)
(* the record any record of at most MaxKeys of the fields the rule table   *)
(* names, beside a "sha".  A field holds what the API sends for it: null   *)
(* or an object ("labels": null or an array of objects).                   *)
(***************************************************************************)
MaxKeys == 2

FilteredFields == {filter_mapping[i].filtered : i \in DOMAIN filter_mapping}

FieldValues(key) ==
    IF key = "labels"
    THEN {Null, Arr(<<>>), Arr(<<Obj([name |-> Str("bug")])>>)}
    ELSE {Null,
          Obj([id |-> Num(7)]),
          Obj([login |-> Str("x")]),
          Obj([label |-> Str("main")]),
          Obj([id |-> Num(8), label |-> Str("dev"), login |-> Str("y")])}

Records ==
    UNION { { SetKey(r, "sha", Str("abc")) :
                r \in {f \in [keys -> UNION {FieldValues(k) : k \in keys}] :
                         \A k \in keys : f[k] \in FieldValues(k)} } :
            keys \in {ks \in SUBSET FilteredFields : Cardinality(ks) <= MaxKeys} }

InitFilter ==
    /\ github_org = Org
    /\ github_object \in SupportedObjects
    /\ github_repo = Null
    /\ payload = EmptyDict
    /\ destination = "s3"
    /\ world = 0
    /\ pc = "filterMapper"
    /\ caller = "none"
    /\ repos = <<>>
    /\ repo_i = 1
    /\ output = <<>>
    /\ endpoint = ""
    /\ final_payload = EmptyDict
    /\ response = <<>>
    /\ pd_output = <<>>
    /\ total = -1
    /\ requests = <<>>
    /\ listed = NotListed
    /\ exception = ""
    /\ units = <<>>
    /\ uploads = <<>>
    /\ fm_record \in Records
    /\ fm_result = EmptyDict
    /\ fm_again = EmptyDict

Filter ==
    /\ pc = "filterMapper"
    /\ fm_result' = filterMapper(github_object, fm_record)
    /\ pc' = "filtered"
    /\ UNCHANGED <<github_org, github_repo, github_object, payload, destination, world,
                   caller, repos, repo_i, output, locals, requests, listed, exception,
                   units, uploads, fm_record, fm_again>>

\* filterMapper called on the record a call of it returned
FilterAgain ==
    /\ pc = "filtered"
    /\ fm_again' = filterMapper(github_object, fm_result)
    /\ pc' = "refiltered"
    /\ UNCHANGED <<github_org, github_repo, github_object, payload, destination, world,
                   caller, repos, repo_i, output, locals, requests, listed, exception,
                   units, uploads, fm_record, fm_result>>

NextFilter ==
    \/ Filter
    \/ FilterAgain

SpecFilter == InitFilter /\ [][NextFilter]_vars

(***************************************************************************)
(* What the properties below read off a run                                *)
(***************************************************************************)
\* the requests and the slice of output of the i-th finished unit
UnitFirstReq(i) == (IF i = 1 THEN listed.reqTo ELSE units[i - 1].reqTo) + 1
UnitLastReq(i) == units[i].reqTo
UnitReqCount(i) == UnitLastReq(i) - UnitFirstReq(i) + 1
UnitOutput(i) ==
    SubSeq(output, (IF i = 1 THEN 0 ELSE units[i - 1].outTo) + 1, units[i].outTo)

\* the page the API sent in answer to the k-th request, for an endpoint of n records
PageOf(k, n) == ServePage(requests[k].endpoint, requests[k].params, n)

\* the pages sent in answer to the requests from..to, one after the other
RECURSIVE Served(_, _, _)
Served(from, to, n) ==
    IF from > to THEN <<>> ELSE PageOf(from, n) \o Served(from + 1, to, n)

\* the n records an endpoint holds, in the order the API lists them
AllRecords(ep, n) ==
    LET kind == Resource(ep)
    IN  [j \in 1..n |-> BackendRecord(kind, ep, j)]

\* the position of the k-th request within the call of paginate_data that made it
PaginationStart(k) ==
    LET ends == {0, listed.reqTo} \cup {units[i].reqTo : i \in DOMAIN units}
        before == {e \in ends : e < k}
    IN  CHOOSE e \in before : \A f \in before : f <= e
PositionOf(k) == k - PaginationStart(k)

Succeeded(i) == ~units[i].failed
DefaultPaging == "page" \notin DOMAIN payload /\ "per_page" \notin DOMAIN payload
Uploads == lower(destination) \in {"s3", "gcs"}

\* the extraction is over: execute is at its call of output_manager, line 109
Extracted == pc = "output_manager"

\* C1: In a run over several repositories a unit whose extraction fails
\* contributes no record, the run goes on to every later unit, the records of
\* every unit that did not fail are in the output, and the run ends in the
\* upload: the only request whose error ends the run is one of the listing.
C1_UnitFailureIsContained ==
    /\ Extracted =>
          \A i \in DOMAIN units :
             /\ units[i].failed => UnitOutput(i) = <<>>
             /\ Succeeded(i) =>
                   UnitOutput(i) = FilterAll(github_object,
                                             Served(UnitFirstReq(i), UnitLastReq(i), units[i].total))
    /\ exception = "run" => units = <<>> /\ repos = <<>> /\ github_repo = Str("all")
    /\ pc \in {"output_manager", "done"} => Len(units) = Len(repos)
    /\ pc = "done" /\ Uploads => Len(uploads) = 1

C1_Witness ==
    /\ Extracted
    /\ Len(repos) = 2
    /\ Len(units) = 2
    /\ units[1].failed
    /\ UnitReqCount(1) >= 2
    /\ Succeeded(2)
    /\ UnitOutput(2) # <<>>
    /\ output = UnitOutput(2)

\* C2: With the default paging parameters (per_page 100, from page 1) a unit
\* over an endpoint of N records takes N \div 100 + 1 requests, every one but
\* the last answered by a full page and the last by a shorter one, and returns
\* the N records in the order of the API; while it runs it has never asked
\* for more than the full pages there are.
C2_PaginationStopsAtShortPage ==
    /\ \A i \in DOMAIN units :
          Extracted /\ Succeeded(i) /\ DefaultPaging =>
             LET n == units[i].total
             IN  /\ UnitReqCount(i) = (n \div FullPage) + 1
                 /\ \A k \in UnitFirstReq(i)..(UnitLastReq(i) - 1) : Len(PageOf(k, n)) = FullPage
                 /\ Len(PageOf(UnitLastReq(i), n)) < FullPage
                 /\ UnitOutput(i) = FilterAll(github_object, AllRecords(units[i].endpoint, n))
    /\ pc = "paginate_data" /\ caller = "retrieve_data" /\ total # -1 /\ DefaultPaging =>
          /\ Len(requests) - PaginationStart(Len(requests)) <= total \div FullPage
          /\ Len(pd_output) = FullPage * (Len(requests) - PaginationStart(Len(requests)))

C2_Witness ==
    /\ Extracted
    /\ DefaultPaging
    /\ \E i \in DOMAIN units :
          /\ Succeeded(i)
          /\ units[i].total = 250
          /\ UnitReqCount(i) = 3
          /\ Len(UnitOutput(i)) = 250

\* C3: With the default paging parameters a unit over an endpoint whose number
\* of records N is a positive multiple of 100 takes N / 100 + 1 requests; the
\* last one asks for page N / 100 + 1 and is answered by the empty page, and
\* the N records of the pages before it are what is returned.
C3_ExtraEmptyPage ==
    \A i \in DOMAIN units :
       LET n == units[i].total
       IN  Extracted /\ Succeeded(i) /\ DefaultPaging /\ n > 0 /\ n % FullPage = 0 =>
              /\ UnitReqCount(i) = (n \div FullPage) + 1
              /\ requests[UnitLastReq(i)].params["page"] = Num((n \div FullPage) + 1)
              /\ PageOf(UnitLastReq(i), n) = <<>>
              /\ Len(UnitOutput(i)) = n
              /\ UnitOutput(i) = FilterAll(github_object,
                                           Served(UnitFirstReq(i), UnitLastReq(i) - 1, n))

C3_Witness ==
    /\ Extracted
    /\ DefaultPaging
    /\ \E i \in DOMAIN units :
          /\ Succeeded(i)
          /\ units[i].total = 200
          /\ UnitReqCount(i) = 3
          /\ PageOf(UnitLastReq(i), 200) = <<>>
          /\ Len(UnitOutput(i)) = 200

\* the parameters every request carries whatever its page: those of the
\* payload, and per_page 100 unless the payload sets it
CarriesPayload(k) ==
    LET params == requests[k].params
    IN  /\ DOMAIN params = DOMAIN payload \cup {"per_page", "page"}
        /\ \A key \in DOMAIN payload \ {"page"} : params[key] = payload[key]
        /\ "per_page" \notin DOMAIN payload => params["per_page"] = Num(PerPage)

FirstPage == IF "page" \in DOMAIN payload THEN payload["page"].n ELSE 1

EffectivePerPage ==
    IF "per_page" \in DOMAIN payload THEN payload["per_page"].n ELSE PerPage

\* C5 as stated: when the extras set per_page to p (and no page), a unit goes
\* on while the last page has p elements and stops at the first shorter one,
\* so that all N records of its endpoint are returned, in N \div p + 1 requests.
C5_ContinuationUsesEffectivePerPage ==
    \A i \in DOMAIN units :
       Extracted /\ Succeeded(i) /\ "page" \notin DOMAIN payload =>
          /\ UnitReqCount(i) = (units[i].total \div EffectivePerPage) + 1
          /\ UnitOutput(i) = FilterAll(github_object,
                                       AllRecords(units[i].endpoint, units[i].total))

\* C8 as stated: once construction has succeeded the stored github_object is
\* one of the eight supported names (any other value is refused by __init__).
C8_AcceptedObjectIsSupported ==
    pc \notin {"new", "rejected"} => github_object \in SupportedObjects

\* what the units so far must have put into output, in the order of the units
RECURSIVE ExpectedOutput(_)
ExpectedOutput(i) ==
    IF i = 0 THEN <<>>
    ELSE ExpectedOutput(i - 1) \o
         (IF units[i].failed THEN <<>>
          ELSE FilterAll(github_object,
                         Served(UnitFirstReq(i), UnitLastReq(i), units[i].total)))

\* C9: The records handed to output_manager are those of the units in the
\* order of the repository list (for 'all', the order of the listing), within
\* a unit those of its pages in the order they were fetched, within a page in
\* the order of the page: nothing of a unit that did not fail is missing,
\* doubled or moved.
C9_OutputOrder ==
    Extracted =>
       /\ output = ExpectedOutput(Len(units))
       /\ \A i \in DOMAIN units : units[i].repo = repos[i]
       /\ listed # NotListed =>
             repos = Names(FilterAll(github_object, Served(1, listed.reqTo, listed.total)))
       /\ IsScoped(github_object) /\ github_repo.t = "arr" => repos = github_repo.a

C9_Witness ==
    /\ pc = "output_manager"
    /\ listed.total = 2
    /\ repos = <<Str("r1"), Str("r2")>>
    /\ Len(units) = 2
    /\ Succeeded(1) /\ UnitReqCount(1) = 3
    /\ Succeeded(2) /\ UnitReqCount(2) >= 1
    /\ Len(UnitOutput(1)) > FullPage
    /\ UnitOutput(2) # <<>>
    /\ output = UnitOutput(1) \o UnitOutput(2)

\* C10 as stated, for the two destinations the operator names: a run whose
\* extraction has completed and that has ended has handed the destination
\* exactly one upload, and what was uploaded is the serialized output (the
\* empty text when there is no record).
C10_OneUploadOfThePayload ==
    pc = "done" /\ Uploads =>
       /\ Len(uploads) = 1
       /\ uploads[1].data = join(output)

\* the number of records the first i units were answered with, those of the
\* units that failed left out
RECURSIVE RecordsOfSucceeded(_)
RecordsOfSucceeded(i) ==
    IF i = 0 THEN 0
    ELSE RecordsOfSucceeded(i - 1) +
         (IF units[i].failed THEN 0
          ELSE Len(Served(UnitFirstReq(i), UnitLastReq(i), units[i].total)))

\* no other unit of the run was a successful extraction of the same endpoint
OnlyFailed(i) ==
    \A j \in DOMAIN units : Succeeded(j) => units[j].endpoint # units[i].endpoint

\* C11: A unit that fails, on its first request or on a later one, leaves the
\* output as it was: no record of the pages it had fetched is in the output
\* handed to output_manager, and the text uploaded has one line per record of
\* the units that did not fail and no line for the one that failed.
C11_FailedUnitContributesNothing ==
    /\ \A i \in DOMAIN units :
          units[i].failed => units[i].outTo = (IF i = 1 THEN 0 ELSE units[i - 1].outTo)
    /\ Extracted =>
          /\ Len(output) = RecordsOfSucceeded(Len(units))
          /\ \A i \in DOMAIN units :
                units[i].failed /\ OnlyFailed(i) =>
                   \A j \in DOMAIN output : output[j]["url"] # Str(units[i].endpoint)
    /\ pc = "done" /\ lower(destination) = "s3" =>
          Len(uploads[1].data) = RecordsOfSucceeded(Len(units))

C11_Witness ==
    /\ pc = "done"
    /\ Len(units) = 1
    /\ units[1].failed
    /\ units[1].total = 250
    /\ UnitReqCount(1) = 3
    /\ output = <<>>
    /\ uploads = <<Upload("s3", <<>>)>>

\* the names the API lists for an organization of n repositories
ListedNames(n) == [j \in 1..n |-> Str(RepoName(j))]

\* the repositories of the units execute has called retrieve_data for
UnitRepos == [i \in DOMAIN units |-> units[i].repo]

\* the repositories execute is to call retrieve_data for, one call each
ExpectedUnits ==
    IF github_object \in OrgLevelObjects THEN <<github_repo>>
    ELSE IF github_repo = Str("all")
    THEN (IF listed = NotListed THEN <<>>
          ELSE Names(Served(1, listed.reqTo, listed.total)))
    ELSE IF github_repo.t = "arr" THEN github_repo.a
    ELSE <<github_repo>>

ExtractionOver == pc \in {"output_manager", "done"} \/ exception = "upload"

\* C12: The calls of retrieve_data of a run are: one, with the repository
\* setting as it is, for members, organizations and repositories, also when
\* the setting is 'all' or a list; for any other object one per name the
\* pagination of the repositories listing returned when the setting is 'all'
\* (every name of the organization, in the order of the API, when the payload
\* sets neither page nor per_page), one per element of a list in the order of
\* the list, and one when the setting is a single name or unset.  Until the
\* extraction is over the calls made are the first of these.
C12_ScopeExpansion ==
    /\ Len(units) <= Len(ExpectedUnits)
    /\ UnitRepos = SubSeq(ExpectedUnits, 1, Len(units))
    /\ ExtractionOver => UnitRepos = ExpectedUnits
    /\ ExtractionOver /\ github_object \in OrgLevelObjects => Len(units) = 1
    /\ listed # NotListed /\ DefaultPaging => ExpectedUnits = ListedNames(listed.total)
    /\ listed # NotListed =>
          github_object \notin OrgLevelObjects /\ github_repo = Str("all")

C12_Witness ==
    /\ ExtractionOver
    /\ github_object = "repositories"
    /\ github_repo = Str("all")
    /\ Len(units) = 1
    /\ units[1].repo = Str("all")
    /\ Len(output) = 250

\* C14: An error of the upload is not caught: the run then ends with that
\* error, although every unit of the extraction has been made, nothing has
\* been uploaded and nothing is done after it, no second upload either; so a
\* run to s3 or gcs that ends without error has made its one upload.
C14_SinkFailureEndsTheRun ==
    /\ [](exception = "upload" =>
             /\ pc = "raised"
             /\ Uploads
             /\ uploads = <<>>
             /\ UnitRepos = ExpectedUnits)
    /\ [](pc = "done" /\ Uploads => Len(uploads) = 1)
    /\ [](Len(uploads) <= 1)
    /\ [][exception # "upload"]_vars

C14_Witness ==
    /\ exception = "upload"
    /\ pc = "raised"
    /\ Len(units) = 2
    /\ Succeeded(1) /\ Succeeded(2)
    /\ Len(output) > FullPage
    /\ uploads = <<>>

\* the endpoint of the repositories listing of line 97
ListingEndpoint == "orgs/" \o Org.s \o "/repos"

\* the run lists the repositories first
ListsFirst == github_object \notin OrgLevelObjects /\ github_repo = Str("all")

\* the number of requests made by the calls of paginate_data that have returned
\* or, within retrieve_data, raised
RequestsOfReturned ==
    IF units = <<>> THEN listed.reqTo ELSE units[Len(units)].reqTo

\* The requests made so far are, in this order: those of the listing, if the
\* run lists, all to the endpoint of the listing; then those of the first
\* unit, all to its endpoint; then those of the second, and so on; then those
\* of the call of paginate_data that is running.  No unit is begun before the
\* listing has returned, and nothing is uploaded before the extraction is over.
BlocksInOrder ==
    /\ \A k \in 1..listed.reqTo : requests[k].endpoint = ListingEndpoint
    /\ listed # NotListed => listed.reqTo >= 1 /\ ListsFirst
    /\ ListsFirst /\ listed = NotListed =>
          /\ units = <<>>
          /\ \A k \in DOMAIN requests : requests[k].endpoint = ListingEndpoint
    /\ ~ListsFirst => listed = NotListed
    /\ \A i \in DOMAIN units :
          /\ UnitFirstReq(i) <= UnitLastReq(i) + 1
          /\ \A k \in UnitFirstReq(i)..UnitLastReq(i) : requests[k].endpoint = units[i].endpoint
    /\ pc = "paginate_data" =>
          \A k \in (RequestsOfReturned + 1)..Len(requests) : requests[k].endpoint = endpoint
    /\ pc \notin {"paginate_data", "raised"} => Len(requests) = RequestsOfReturned
    /\ uploads # <<>> => pc = "done"

\* the requests of one call of paginate_data ask for consecutive pages
PagesConsecutive ==
    \A k \in DOMAIN requests :
       PositionOf(k) > 1 =>
          /\ requests[k].endpoint = requests[k - 1].endpoint
          /\ requests[k].params["page"].n = requests[k - 1].params["page"].n + 1

NoRequestOnceExtracted ==
    pc \in {"output_manager", "done", "raised"} => UNCHANGED requests

\* a step leaves the requests made before it as they are
RequestsOnlyAppended == requests = SubSeq(requests', 1, Len(requests))

BetweenPages == pc = "paginate_data" /\ total # -1

\* the pages the running call of paginate_data has been answered with
PagesSoFar == Served(RequestsOfReturned + 1, Len(requests), total)

\* the output of every unit that did not fail is its pages, every record of
\* them as filterMapper returns it
ReturnedFiltered ==
    Extracted =>
       \A i \in DOMAIN units :
          Succeeded(i) =>
             LET out == UnitOutput(i)
                 pages == Served(UnitFirstReq(i), UnitLastReq(i), units[i].total)
             IN  /\ Len(out) = Len(pages)
                 /\ \A j \in DOMAIN out : out[j] = filterMapper(github_object, pages[j])

\* C16 as stated: every record paginate_data returns has been through
\* filterMapper, and the records of a page are filtered before the next page
\* is requested: between two requests the accumulated records are filtered.
C16_FilteredPerPage ==
    /\ ReturnedFiltered
    /\ BetweenPages => pd_output = FilterAll(github_object, PagesSoFar)

\* C16 amended: every record paginate_data returns has been through
\* filterMapper, and filtering is applied once, after the last page: between
\* two requests the accumulated records are the records as the API sent them.
C16_FilteredOnceOnReturn ==
    /\ ReturnedFiltered
    /\ BetweenPages => pd_output = PagesSoFar

C16_Witness ==
    /\ BetweenPages
    /\ github_object = "commits"
    /\ Len(requests) - RequestsOfReturned = 2
    /\ Len(pd_output) = 2 * FullPage
    /\ "author" \in DOMAIN pd_output[1]
    /\ ~IsNull(pd_output[1]["author"])
    /\ "author_id" \notin DOMAIN pd_output[1]
    /\ filterMapper(github_object, pd_output[1]) # pd_output[1]

\* C17: When the run lists the repositories and a request of the listing
\* fails, the error leaves execute: the run has ended with it, no call of
\* retrieve_data has been made, no request but those of the listing, nothing
\* is in the output, nothing has been uploaded and nothing follows.  A run
\* whose listing was asked for and did not return has ended so, and a failed
\* unit never ends the run.
C17_ListingFailureEndsTheRun ==
    /\ [](exception = "run" =>
             /\ pc = "raised"
             /\ ListsFirst
             /\ listed = NotListed
             /\ units = <<>>
             /\ output = <<>>
             /\ uploads = <<>>
             /\ requests # <<>>
             /\ \A k \in DOMAIN requests : requests[k].endpoint = ListingEndpoint)
    /\ [](ListsFirst /\ listed = NotListed /\ requests # <<>> /\ pc # "paginate_data" =>
             exception = "run")
    /\ [](units # <<>> => exception # "run")
    /\ [][exception # "run"]_vars

C17_Witness ==
    /\ exception = "run"
    /\ pc = "raised"
    /\ github_object = "commits"
    /\ github_repo = Str("all")
    /\ Len(requests) = 1
    /\ requests[1].endpoint = ListingEndpoint
    /\ units = <<>>
    /\ uploads = <<>>

\* C18: The destination is looked at by output_manager only, in lower case:
\* __init__ refuses no destination; a run whose destination is neither 's3'
\* nor 'gcs' in any case makes its whole extraction, uploads nothing and ends
\* without error; one whose destination is 'GCS' uploads to gcs.
C18_UnknownDestinationIsSilent ==
    /\ pc = "rejected" => ~InitAccepts(github_object)
    /\ ~Uploads =>
          /\ uploads = <<>>
          /\ exception # "upload"
          /\ pc = "done" => UnitRepos = ExpectedUnits /\ exception = ""
    /\ destination \in {"s3", "S3", "gcs", "GCS", "Gcs"} /\ pc = "done" =>
          /\ Len(uploads) = 1
          /\ uploads[1].destination \in {"s3", "gcs"}
          /\ lower(destination) = uploads[1].destination
          /\ lower(uploads[1].destination) = uploads[1].destination

C18_Witness ==
    /\ pc = "done"
    /\ destination = "ftp"
    /\ Len(units) = 2
    /\ Len(requests) >= 4
    /\ Len(output) > FullPage
    /\ uploads = <<>>
    /\ exception = ""

(***************************************************************************)
(* filterMapper on its own (SpecFilter)                                    *)
(***************************************************************************)
\* the rules of the table that are those of self.github_object
RulesOf(obj) == {i \in DOMAIN filter_mapping : filter_mapping[i].name = obj}

Retained(i) == {filter_mapping[i].retained[j] : j \in DOMAIN filter_mapping[i].retained}

\* the record holds the field as a key, with an object that holds the subfield
Holds(rec, field, sub) ==
    /\ field \in DOMAIN rec
    /\ ~IsNull(rec[field])
    /\ sub \in DOMAIN rec[field].m

\* C6 as stated: after filterMapper the filtered field of every rule of the
\* object is no key of the record, whether or not anything was hoisted, and
\* also when the field was null.
C6_FilteredFieldIsDeleted ==
    pc = "filtered" =>
       \A i \in RulesOf(github_object) :
          filter_mapping[i].filtered \in DOMAIN fm_record =>
             filter_mapping[i].filtered \notin DOMAIN fm_result

\* C7: For every rule of the object and every subfield s it retains, the
\* result has the key "<field>_<s>" exactly when the record held the field
\* with an object holding s, and then with the value of s; under an object all
\* of whose rules retain nothing the result has no key the record had not.
C7_RetainedSubfieldIsHoisted ==
    pc = "filtered" =>
       /\ \A i \in RulesOf(github_object) : \A sub \in Retained(i) :
             LET field == filter_mapping[i].filtered
                 key == field \o "_" \o sub
             IN  /\ key \in DOMAIN fm_result <=> Holds(fm_record, field, sub)
                 /\ Holds(fm_record, field, sub) => fm_result[key] = fm_record[field].m[sub]
       /\ (\A i \in RulesOf(github_object) : Retained(i) = {}) =>
             DOMAIN fm_result \subseteq DOMAIN fm_record

C7_Witness ==
    /\ pc = "filtered"
    /\ github_object = "commits"
    /\ DOMAIN fm_record = {"sha", "author", "committer"}
    /\ IsNull(fm_record["committer"])
    /\ "author_id" \in DOMAIN fm_result
    /\ fm_result["author_id"] = Num(7)
    /\ "committer_id" \notin DOMAIN fm_result
    /\ "author" \notin DOMAIN fm_result

\* C13: filterMapper called on a record it has returned returns that record:
\* for every object and every record, also one whose filtered fields are null
\* or missing, the second call changes nothing.
C13_FilterIsIdempotent ==
    pc = "refiltered" => fm_again = fm_result

C13_Witness ==
    /\ pc = "refiltered"
    /\ github_object = "pull_requests"
    /\ DOMAIN fm_record = {"sha", "head", "assignee"}
    /\ IsNull(fm_record["assignee"])
    /\ ~IsNull(fm_record["head"])
    /\ fm_result # fm_record
    /\ "assignee" \in DOMAIN fm_result
    /\ "head_label" \in DOMAIN fm_result
    /\ fm_again = fm_result

\* the filtered fields of the rules of the object
FilteredOf(obj) == {filter_mapping[i].filtered : i \in RulesOf(obj)}

\* the keys the rules of the object hoist retained subfields to
HoistedKeysOf(obj) ==
    UNION {{filter_mapping[i].filtered \o "_" \o sub : sub \in Retained(i)} :
              i \in RulesOf(obj)}

====
